---- MODULE Spec2Model ----
(***************************************************************************)
(* The scan workflow controller of static/js/scan.js as a state machine.   *)
(*                                                                         *)
(* One action per event handler of the page: the Lookup, Save and Clear    *)
(* buttons, the keydown and input handlers of the code field, the change   *)
(* handlers of the scanner-mode checkbox and of the delay input, the       *)
(* debounce timer's callback, and the continuation of every awaited        *)
(* request (its response or its failure).  Time passes in the Tick action; *)
(* a timer's callback runs when its delay has elapsed.                     *)
(*                                                                         *)
(* Spec is the scan workflow: lookup, save, clear, scanner mode and delay. *)
(* SpecRequests adds the bulk refresh to the requests of the workflow,     *)
(* SpecPrefs the page load that reads the cookies back, SpecOrder looks up *)
(* two different codes, SpecDelay runs scheduleLookup on every delay text. *)
(*                                                                         *)
(* Strings are sequences of characters.  A character is written as the     *)
(* one-character string of itself, or as "U+" and four hexadecimal digits, *)
(* its code point, when it is a control character without an escape, the   *)
(* grave accent, or beyond the ASCII range: "U+000B", "U+0060", "U+00A0".  *)
(***************************************************************************)
EXTENDS Integers, Sequences, FiniteSets, TLC

\* ---------------------------------------------------------------- bounds
\* Requests (lookup and save together) awaiting their response at one time.
MaxInflight == 2
\* Milliseconds that pass in one step of time short of a timer's expiry.
Quantum == 150

\* Longest text of the delay input in the specification of the delay.
MaxDelayDigits == 4

\* ------------------------------------------------------ program constants
MinDelay == 50
MaxDelay == 2000
DefaultDelay == 250

COOKIE_SCANNER_MODE == "scanner_mode"
COOKIE_SCANNER_DELAY == "scanner_delay"

\* ------------------------------------------------------------ input sets
\* Texts of the code field: empty, white space only (a space and a tab), a
\* code with white space around it (a no-break space before, a tab after).
CodeValues == {<<>>, <<" ", "\t">>, <<"U+00A0", "7", "\t">>}

\* Values of the delay input: empty (the default applies), below the range.
DelayValues == {<<>>, <<"2", "0">>}

\* How apiPost ends for a lookup request.  It returns the parsed body: a
\* result with a book, one without, one with an error, one with an error and
\* a book, an error alone (a body such as {error: "Not found"}, and the
\* {error: "Non-JSON response", raw} apiPost makes of a body that is not
\* JSON), or null for an empty body.  Or it throws: the response is not ok,
\* or fetch rejects.
LookupOutcomes == {"book", "nobook", "error", "errorbook", "erroronly", "null", "fail"}

\* ------------------------------------------------------- pure functions
\* The characters of the ASCII range by code point, from U+0000 to U+007F.
Ascii ==
    <<"U+0000", "U+0001", "U+0002", "U+0003", "U+0004", "U+0005", "U+0006", "U+0007",
      "U+0008", "\t", "\n", "U+000B", "\f", "\r", "U+000E", "U+000F",
      "U+0010", "U+0011", "U+0012", "U+0013", "U+0014", "U+0015", "U+0016", "U+0017",
      "U+0018", "U+0019", "U+001A", "U+001B", "U+001C", "U+001D", "U+001E", "U+001F",
      " ", "!", "\"", "#", "$", "%", "&", "'",
      "(", ")", "*", "+", ",", "-", ".", "/",
      "0", "1", "2", "3", "4", "5", "6", "7",
      "8", "9", ":", ";", "<", "=", ">", "?",
      "@", "A", "B", "C", "D", "E", "F", "G",
      "H", "I", "J", "K", "L", "M", "N", "O",
      "P", "Q", "R", "S", "T", "U", "V", "W",
      "X", "Y", "Z", "[", "\\", "]", "^", "_",
      "U+0060", "a", "b", "c", "d", "e", "f", "g",
      "h", "i", "j", "k", "l", "m", "n", "o",
      "p", "q", "r", "s", "t", "u", "v", "w",
      "x", "y", "z", "{", "|", "}", "~", "U+007F">>

\* The characters beyond the ASCII range that the model can tell apart, each
\* with its code point: the white space and line terminators of ECMAScript
\* that lie there, and one letter (e with acute accent).
NonAscii ==
    {<<"U+00A0", 160>>, <<"U+00E9", 233>>, <<"U+1680", 5760>>,
     <<"U+2000", 8192>>, <<"U+2001", 8193>>, <<"U+2002", 8194>>, <<"U+2003", 8195>>,
     <<"U+2004", 8196>>, <<"U+2005", 8197>>, <<"U+2006", 8198>>, <<"U+2007", 8199>>,
     <<"U+2008", 8200>>, <<"U+2009", 8201>>, <<"U+200A", 8202>>,
     <<"U+2028", 8232>>, <<"U+2029", 8233>>, <<"U+202F", 8239>>, <<"U+205F", 8287>>,
     <<"U+3000", 12288>>, <<"U+FEFF", 65279>>}

\* Every character with its code point.
CodePoints ==
    [c \in {Ascii[i] : i \in 1..Len(Ascii)} \cup {p[1] : p \in NonAscii} |->
        IF \E i \in 1..Len(Ascii) : Ascii[i] = c
        THEN (CHOOSE i \in 1..Len(Ascii) : Ascii[i] = c) - 1
        ELSE (CHOOSE p \in NonAscii : p[1] = c)[2]]

\* The code point of a character.
CodePoint(c) == CodePoints[c]

\* Every code point beyond the ASCII range with its character.
NonAsciiChars ==
    [cp \in {p[2] : p \in NonAscii} |-> (CHOOSE p \in NonAscii : p[2] = cp)[1]]

\* The character of a code point.
CharOf(cp) == IF cp < Len(Ascii) THEN Ascii[cp + 1] ELSE NonAsciiChars[cp]

\* WhiteSpace of ECMAScript: tab, vertical tab, form feed, the byte order mark
\* and the space separators of Unicode.
WhiteSpace ==
    {"\t", "U+000B", "\f", " ", "U+00A0", "U+1680",
     "U+2000", "U+2001", "U+2002", "U+2003", "U+2004", "U+2005", "U+2006",
     "U+2007", "U+2008", "U+2009", "U+200A", "U+202F", "U+205F", "U+3000", "U+FEFF"}

\* LineTerminator of ECMAScript: line feed, carriage return, line separator,
\* paragraph separator.
LineTerminator == {"\n", "\r", "U+2028", "U+2029"}

\* The characters String.prototype.trim removes.
IsSpace(c) == c \in WhiteSpace \cup LineTerminator

\* String.prototype.trim: drop the white space and the line terminators at
\* both ends.
RECURSIVE TrimLeft(_)
TrimLeft(s) ==
    IF s = <<>> THEN <<>>
    ELSE IF IsSpace(Head(s)) THEN TrimLeft(Tail(s)) ELSE s

RECURSIVE TrimRight(_)
TrimRight(s) ==
    IF s = <<>> THEN <<>>
    ELSE IF IsSpace(s[Len(s)]) THEN TrimRight(SubSeq(s, 1, Len(s) - 1)) ELSE s

\* Mutant of Trim: the code is sent as typed.
Trim_Untrimmed(s) == s

Trim(s) == TrimRight(TrimLeft(s))

HexDigits == <<"0", "1", "2", "3", "4", "5", "6", "7",
               "8", "9", "A", "B", "C", "D", "E", "F">>

\* Every hexadecimal digit, of either case, with its value.
HexValues ==
    [c \in {HexDigits[i] : i \in 1..Len(HexDigits)} \cup {"a", "b", "c", "d", "e", "f"} |->
        IF \E i \in 1..Len(HexDigits) : HexDigits[i] = c
        THEN (CHOOSE i \in 1..Len(HexDigits) : HexDigits[i] = c) - 1
        ELSE CASE c = "a" -> 10 [] c = "b" -> 11 [] c = "c" -> 12
               [] c = "d" -> 13 [] c = "e" -> 14 [] c = "f" -> 15]

\* The value of a hexadecimal digit, -1 for any other character.
HexValue(c) == IF c \in DOMAIN HexValues THEN HexValues[c] ELSE -1

DigitValue(c) ==
    CASE c = "0" -> 0 [] c = "1" -> 1 [] c = "2" -> 2 [] c = "3" -> 3 [] c = "4" -> 4
      [] c = "5" -> 5 [] c = "6" -> 6 [] c = "7" -> 7 [] c = "8" -> 8 [] c = "9" -> 9

\* The number a string of decimal digits writes.
RECURSIVE DigitsValue(_)
DigitsValue(s) ==
    IF s = <<>> THEN 0
    ELSE 10 * DigitsValue(SubSeq(s, 1, Len(s) - 1)) + DigitValue(s[Len(s)])

\* The number a string of digits writes in a radix of 2, 8 or 16.
RECURSIVE RadixValue(_, _)
RadixValue(s, radix) ==
    IF s = <<>> THEN 0
    ELSE radix * RadixValue(SubSeq(s, 1, Len(s) - 1), radix) + HexValue(s[Len(s)])

DecimalDigits == {"0", "1", "2", "3", "4", "5", "6", "7", "8", "9"}

\* Every character of s is one of chars.
AllIn(s, chars) == \A i \in 1..Len(s) : s[i] \in chars

\* The first place of s that holds one of chars, 0 when none does.
FirstIn(s, chars) ==
    IF \E i \in 1..Len(s) : s[i] \in chars
    THEN CHOOSE i \in 1..Len(s) :
            s[i] \in chars /\ \A j \in 1..(i - 1) : s[j] \notin chars
    ELSE 0

\* The values of the Number type: NaN, the two infinities, and the finite
\* numbers a decimal text writes, sign, digits mant and power of ten exp:
\* mant * 10^exp.
NaN == [kind |-> "NaN", neg |-> FALSE, mant |-> 0, exp |-> 0]

Infinity(neg) == [kind |-> "Infinity", neg |-> neg, mant |-> 0, exp |-> 0]

Finite(neg, mant, exp) == [kind |-> "finite", neg |-> neg, mant |-> mant, exp |-> exp]

\* Number(t) of an unsigned decimal literal t with the sign neg read before
\* it: digits, a fraction after a dot, an exponent after e or E; one of the
\* digit runs beside the dot may be missing.  Any other text is NaN.
DecimalLiteral(neg, t) ==
    LET e == FirstIn(t, {"e", "E"})
        body == IF e = 0 THEN t ELSE SubSeq(t, 1, e - 1)
        power == IF e = 0 THEN <<>> ELSE SubSeq(t, e + 1, Len(t))
        powerSigned == power # <<>> /\ Head(power) \in {"+", "-"}
        powerDigits == IF powerSigned THEN Tail(power) ELSE power
        dot == FirstIn(body, {"."})
        whole == IF dot = 0 THEN body ELSE SubSeq(body, 1, dot - 1)
        fraction == IF dot = 0 THEN <<>> ELSE SubSeq(body, dot + 1, Len(body))
    IN  IF /\ AllIn(whole, DecimalDigits)
           /\ AllIn(fraction, DecimalDigits)
           /\ whole \o fraction # <<>>
           /\ (e # 0) => (powerDigits # <<>> /\ AllIn(powerDigits, DecimalDigits))
        THEN Finite(neg, DigitsValue(whole \o fraction),
                    (IF powerSigned /\ Head(power) = "-"
                     THEN 0 - DigitsValue(powerDigits)
                     ELSE DigitsValue(powerDigits)) - Len(fraction))
        ELSE NaN

\* Number(t) of an unsigned literal of radix 16, 8 or 2: the prefix 0 and the
\* letter mark, then digits of the radix.
RadixMarks == {<<16, {"x", "X"}>>, <<8, {"o", "O"}>>, <<2, {"b", "B"}>>}

RadixDigits(radix) == {HexDigits[i] : i \in 1..radix} \cup
                      (IF radix = 16 THEN {"a", "b", "c", "d", "e", "f"} ELSE {})

IsRadixLiteral(t, r) ==
    /\ Len(t) > 2
    /\ t[1] = "0"
    /\ t[2] \in r[2]
    /\ AllIn(SubSeq(t, 3, Len(t)), RadixDigits(r[1]))

\* Number(s) of a string: white space and line terminators around it are
\* dropped; what is left empty is 0; a literal of radix 16, 8 or 2 is its
\* value; a decimal literal or Infinity, with or without a sign, is its value;
\* any other text is NaN.
ToNumber(s) ==
    LET t == Trim(s)
        signed == t # <<>> /\ Head(t) \in {"+", "-"}
        neg == t # <<>> /\ Head(t) = "-"
        unsigned == IF signed THEN Tail(t) ELSE t
    IN  IF t = <<>> THEN Finite(FALSE, 0, 0)
        ELSE IF \E r \in RadixMarks : IsRadixLiteral(t, r)
        THEN LET r == CHOOSE r \in RadixMarks : IsRadixLiteral(t, r)
             IN  Finite(FALSE, RadixValue(SubSeq(t, 3, Len(t)), r[1]), 0)
        ELSE IF unsigned = <<"I", "n", "f", "i", "n", "i", "t", "y">>
        THEN Infinity(neg)
        ELSE DecimalLiteral(neg, unsigned)

RECURSIVE Pow10(_)
Pow10(k) == IF k = 0 THEN 1 ELSE 10 * Pow10(k - 1)

\* The integer part of a finite number that is not negative, as far as it
\* tells the number from the integers up to MaxDelay: a number above them all
\* gives MaxDelay + 1.
Whole(x) ==
    IF x.exp >= 0
    THEN IF x.mant = 0 THEN 0
         ELSE IF x.mant > MaxDelay \/ x.exp > 4 THEN MaxDelay + 1
         ELSE IF x.mant * Pow10(x.exp) > MaxDelay THEN MaxDelay + 1
         ELSE x.mant * Pow10(x.exp)
    ELSE IF 0 - x.exp > 9 THEN 0
         ELSE IF x.mant \div Pow10(0 - x.exp) > MaxDelay THEN MaxDelay + 1
         ELSE x.mant \div Pow10(0 - x.exp)

\* A finite number that is not negative has digits after the point.
HasFraction(x) ==
    /\ x.exp < 0
    /\ IF 0 - x.exp > 9 THEN x.mant # 0 ELSE x.mant % Pow10(0 - x.exp) # 0

\* x < 0, x < n and x > n for a number x that is not NaN and an integer n of
\* 0..MaxDelay.
Negative(x) == x.neg /\ (x.kind = "Infinity" \/ x.mant # 0)

Below(x, n) ==
    \/ Negative(x)
    \/ x.kind = "finite" /\ Whole(x) < n

Above(x, n) ==
    /\ ~Negative(x)
    /\ \/ x.kind = "Infinity"
       \/ Whole(x) > n
       \/ Whole(x) = n /\ HasFraction(x)

\* Math.min(n, x) and Math.max(n, x) for an integer n of 0..MaxDelay: NaN when
\* x is NaN.
MathMin(n, x) ==
    IF x.kind = "NaN" THEN NaN
    ELSE IF Above(x, n) THEN Finite(FALSE, n, 0) ELSE x

MathMax(n, x) ==
    IF x.kind = "NaN" THEN NaN
    ELSE IF Below(x, n) THEN Finite(FALSE, n, 0) ELSE x

\* The number scheduleLookup computes:
\* Math.max(50, Math.min(2000, Number(value || 250))).
DelayMs(value) ==
    MathMax(MinDelay,
            MathMin(MaxDelay,
                    IF value = <<>> THEN Finite(FALSE, DefaultDelay, 0) ELSE ToNumber(value)))

\* The milliseconds setTimeout runs a timer for when it is given the number
\* ms, one DelayMs yields: 0 for NaN, else the integer part.
TimeoutMs(ms) == IF ms.kind = "NaN" THEN 0 ELSE Whole(ms)

\* The characters encodeURIComponent leaves as they are: letters, digits and
\* - _ . ! ~ * ' ( )
Unreserved ==
    {"A", "B", "C", "D", "E", "F", "G", "H", "I", "J", "K", "L", "M",
     "N", "O", "P", "Q", "R", "S", "T", "U", "V", "W", "X", "Y", "Z",
     "a", "b", "c", "d", "e", "f", "g", "h", "i", "j", "k", "l", "m",
     "n", "o", "p", "q", "r", "s", "t", "u", "v", "w", "x", "y", "z",
     "0", "1", "2", "3", "4", "5", "6", "7", "8", "9",
     "-", "_", ".", "!", "~", "*", "'", "(", ")"}

\* The UTF-8 octets of a code point of the basic multilingual plane.
Utf8(cp) ==
    IF cp < 128 THEN <<cp>>
    ELSE IF cp < 2048 THEN <<192 + (cp \div 64), 128 + (cp % 64)>>
    ELSE <<224 + (cp \div 4096), 128 + ((cp \div 64) % 64), 128 + (cp % 64)>>

\* %XX for every octet, in upper-case hexadecimal.
RECURSIVE PercentEscape(_)
PercentEscape(octets) ==
    IF octets = <<>> THEN <<>>
    ELSE <<"%", HexDigits[(Head(octets) \div 16) + 1], HexDigits[(Head(octets) % 16) + 1]>>
         \o PercentEscape(Tail(octets))

\* encodeURIComponent of one character: an unreserved character stands for
\* itself, every other character becomes the percent escapes of its UTF-8
\* octets.
EncodeChar(c) ==
    IF c \in Unreserved THEN <<c>> ELSE PercentEscape(Utf8(CodePoint(c)))

RECURSIVE EncodeURIComponent(_)
EncodeURIComponent(s) ==
    IF s = <<>> THEN <<>>
    ELSE EncodeChar(Head(s)) \o EncodeURIComponent(Tail(s))

\* ----------------------------------------------------------------- state
VARIABLES
    code,            \* els.code.value
    scannerChecked,  \* els.scannerMode.checked
    delayValue,      \* els.scannerDelayInput.value
    delayDisabled,   \* els.scannerDelayInput.disabled (and the "hidden" class)
    cookies,         \* document.cookie, by cookie name
    markupDelay,     \* the value the page's markup gives the delay input
    loadPending,     \* the window's load event is still to be dispatched
    userPrefs,       \* the box state and the delay text the user set last
    lastLookup,      \* the module variable lastLookup
    lookupTimer,     \* the module variable lookupTimer (0 is null)
    timers,          \* the browser's live timers
    btnSaveDisabled, \* els.btnSave.disabled
    status,          \* els.status: display, textContent, border colour
    previewShown,    \* els.preview.style.display = "block"
    report,          \* els.refreshReport (shown or not) and els.refreshList
    inflight,        \* requests awaiting their response, in the order sent
    inputScanner,    \* scanner mode was on at the last input event
    lastEvent        \* the code that ran last: a handler (for a timer's callback,
                     \* with its handle; for Clear, with the handle lookupTimer
                     \* held) or the continuation of a request (for a lookup
                     \* answered after a later one, with 1)

vars == <<code, scannerChecked, delayValue, delayDisabled, cookies, markupDelay,
          loadPending, userPrefs, lastLookup,
          lookupTimer, timers, btnSaveDisabled, status, previewShown, report,
          inflight, inputScanner, lastEvent>>

\* Books are told apart by the lookup result they came with: the book of the
\* result lastLookup holds now, or the book of an earlier result.
NoBook == "none"
CurrentBook == "current"
EarlierBook == "earlier"

\* lastLookup = null
NullLookup == [value |-> <<>>, book |-> NoBook, error |-> FALSE]

NoCookie == [set |-> FALSE, value |-> <<>>]

HiddenStatus == [shown |-> FALSE, msg |-> "", isError |-> FALSE]

\* showStatus(msg, isError): the status is shown with the text and the error
\* border.  Texts stand for their kind: "OK" for `OK: <KIND> <value>`,
\* "Not found" for the result's error text, "HTTP 500" for the message of the
\* error the request client threw, "TypeError" for the message of the error
\* thrown on a null result, "Saved" for the text with the saved id, "Done"
\* for the text with the counts of a refresh.
ShowStatus(msg, isError) == [shown |-> TRUE, msg |-> msg, isError |-> isError]

\* setCookie(name, value)
SetCookie(jar, name, value) ==
    [jar EXCEPT ![name] = [set |-> TRUE, value |-> EncodeURIComponent(value)]]

\* The refresh report of the page as loaded: not shown, its list empty.
EmptyReport == [shown |-> FALSE, listed |-> FALSE]

\* What decodeURIComponent yields when it throws `URIError: URI malformed`.
URIError == <<"URIError: URI malformed">>

\* The octet the escape at place i of s writes, -1 when no %XX stands there.
OctetAt(s, i) ==
    IF /\ i + 2 <= Len(s)
       /\ s[i] = "%"
       /\ HexValue(s[i + 1]) >= 0
       /\ HexValue(s[i + 2]) >= 0
    THEN 16 * HexValue(s[i + 1]) + HexValue(s[i + 2])
    ELSE -1

\* The number of octets of the UTF-8 sequence a first octet opens, 0 for an
\* octet that opens none.
Utf8Length(b) ==
    IF b >= 0 /\ b < 128 THEN 1
    ELSE IF b >= 194 /\ b < 224 THEN 2
    ELSE IF b >= 224 /\ b < 240 THEN 3
    ELSE IF b >= 240 /\ b < 245 THEN 4
    ELSE 0

\* The code point the first n escapes of s write in UTF-8, -1 when they are
\* not the UTF-8 of a code point (an escape missing or cut short, an octet
\* that does not continue the sequence, an overlong form, a surrogate, a
\* number past U+10FFFF).
Utf8CodePoint(s, n) ==
    LET b1 == OctetAt(s, 1)
        b2 == OctetAt(s, 4)
        b3 == OctetAt(s, 7)
        b4 == OctetAt(s, 10)
        Cont(b) == b >= 128 /\ b < 192
        cp == CASE n = 1 -> b1
                [] n = 2 -> (b1 - 192) * 64 + (b2 - 128)
                [] n = 3 -> (b1 - 224) * 4096 + (b2 - 128) * 64 + (b3 - 128)
                [] n = 4 -> (b1 - 240) * 262144 + (b2 - 128) * 4096
                            + (b3 - 128) * 64 + (b4 - 128)
    IN  IF /\ n >= 1
           /\ n >= 2 => Cont(b2)
           /\ n >= 3 => Cont(b3)
           /\ n >= 4 => Cont(b4)
           /\ n = 3 => (cp >= 2048 /\ ~(cp >= 55296 /\ cp < 57344))
           /\ n = 4 => (cp >= 65536 /\ cp < 1114112)
        THEN cp
        ELSE -1

\* c put before the decoded rest, unless decoding the rest threw.
Decoded(c, rest) == IF rest = URIError THEN URIError ELSE <<c>> \o rest

\* decodeURIComponent: every run of percent escapes that is the UTF-8 of a
\* code point becomes its character, every other character stands for
\* itself; a percent sign that opens no such run makes it throw.
RECURSIVE DecodeURIComponent(_)
DecodeURIComponent(s) ==
    IF s = <<>> THEN <<>>
    ELSE IF Head(s) # "%" THEN Decoded(Head(s), DecodeURIComponent(Tail(s)))
    ELSE LET n == Utf8Length(OctetAt(s, 1))
             cp == Utf8CodePoint(s, n)
         IN  IF cp < 0
             THEN URIError
             ELSE Decoded(CharOf(cp), DecodeURIComponent(SubSeq(s, 3 * n + 1, Len(s))))

\* getCookie(name): null (found is FALSE) without such a cookie, else its
\* decoded value; threw when decodeURIComponent throws on the value.
GetCookie(jar, name) ==
    IF ~jar[name].set
    THEN [found |-> FALSE, threw |-> FALSE, value |-> <<>>]
    ELSE LET v == DecodeURIComponent(jar[name].value)
         IN  IF v = URIError
             THEN [found |-> TRUE, threw |-> TRUE, value |-> <<>>]
             ELSE [found |-> TRUE, threw |-> FALSE, value |-> v]

Event(op, tid) == [op |-> op, tid |-> tid]

\* The page once the load handler has run, for a visitor whose earlier visit
\* left the two cookies: the box and the delay input hold what the cookies say
\* (an empty delay cookie leaves the input the value of the markup, here empty).
Init ==
    /\ markupDelay = <<>>
    /\ code = <<>>
    /\ scannerChecked \in BOOLEAN
    /\ delayValue \in DelayValues
    /\ delayDisabled = ~scannerChecked
    /\ cookies = SetCookie(SetCookie([n \in {COOKIE_SCANNER_MODE, COOKIE_SCANNER_DELAY} |-> NoCookie],
                                      COOKIE_SCANNER_MODE,
                                      IF scannerChecked THEN <<"1">> ELSE <<"0">>),
                            COOKIE_SCANNER_DELAY, delayValue)
    /\ lastLookup = NullLookup
    /\ lookupTimer = 0
    /\ timers = {}
    /\ btnSaveDisabled = TRUE
    /\ status = HiddenStatus
    /\ previewShown = FALSE
    /\ report = EmptyReport
    /\ inflight = <<>>
    /\ inputScanner = FALSE
    /\ lastEvent = Event("load", 0)
    /\ loadPending = FALSE
    /\ userPrefs = [checked |-> scannerChecked, delay |-> delayValue]

\* ------------------------------------------------------------ the page
\* The least positive integer outside a finite set.
Fresh(used) == CHOOSE n \in 1..(Cardinality(used) + 1) :
                  /\ n \notin used
                  /\ \A m \in 1..(n - 1) : m \in used

\* The handle the next setTimeout returns: one no live timer has and
\* lookupTimer does not hold.
FreshHandle == Fresh({t.id : t \in timers} \cup {lookupTimer})

\* The requests in flight once lastLookup has been assigned anew: the book a
\* save carries is then the book of an earlier result.
Superseded(q) ==
    [i \in 1..Len(q) |-> IF q[i].book = CurrentBook
                          THEN [q[i] EXCEPT !.book = EarlierBook]
                          ELSE q[i]]

\* The part of the page that clearUI, showStatus and renderLookup write.
UI == [lastLookup |-> lastLookup, btnSaveDisabled |-> btnSaveDisabled,
       status |-> status, previewShown |-> previewShown]

SetUI(ui) ==
    /\ lastLookup' = ui.lastLookup
    /\ btnSaveDisabled' = ui.btnSaveDisabled
    /\ status' = ui.status
    /\ previewShown' = ui.previewShown

\* clearUI(): hides status and preview, disables save, forgets the lookup.
ClearUI(ui) ==
    [ui EXCEPT !.status = [@ EXCEPT !.shown = FALSE],
               !.previewShown = FALSE,
               !.btnSaveDisabled = TRUE,
               !.lastLookup = NullLookup]

\* renderLookup(result)
RenderLookup(ui, result) ==
    LET u1 == [ui EXCEPT !.lastLookup = result]
    IN  IF result.error
        THEN [u1 EXCEPT !.status = ShowStatus("Not found", TRUE),
                        !.previewShown = FALSE,
                        !.btnSaveDisabled = TRUE]
        ELSE LET u2 == [u1 EXCEPT !.status = ShowStatus("OK", FALSE)]
             IN  IF result.book = NoBook
                 THEN [u2 EXCEPT !.previewShown = FALSE,
                                 !.btnSaveDisabled = TRUE]
                 ELSE [u2 EXCEPT !.previewShown = TRUE,
                                 !.btnSaveDisabled = FALSE]

\* The result apiPost returns for lookup request r; b is the book in it.  A
\* result that is an error alone has no value.
LookupResult(r, outcome, b) ==
    CASE outcome = "book"      -> [value |-> r.code, book |-> b, error |-> FALSE]
      [] outcome = "nobook"    -> [value |-> r.code, book |-> NoBook, error |-> FALSE]
      [] outcome = "error"     -> [value |-> r.code, book |-> NoBook, error |-> TRUE]
      [] outcome = "errorbook" -> [value |-> r.code, book |-> b, error |-> TRUE]
      [] outcome = "erroronly" -> [value |-> <<>>, book |-> NoBook, error |-> TRUE]

\* A request: its endpoint and its body (the code looked up, the book saved),
\* and whether a lookup request sent after it has been answered already.  The
\* requests in flight are in the order they were sent.
Request(ep, c, book) == [ep |-> ep, code |-> c, book |-> book, older |-> FALSE]

\* The requests in flight once lookup request i is answered: the lookup
\* requests sent before it are still waiting.
Overtaken(q, i) ==
    [j \in 1..Len(q) |-> IF j < i /\ q[j].ep = "lookup" THEN [q[j] EXCEPT !.older = TRUE] ELSE q[j]]

\* Request i of q is answered after a lookup request sent later than it.
AnsweredLate(q, i) == q[i].older

RemoveAt(q, i) == SubSeq(q, 1, i - 1) \o SubSeq(q, i + 1, Len(q))

\* Mutant of ClearTimeout: the timer stays live.
ClearTimeout_Noop(tm, handle) == tm

\* clearTimeout(handle)
ClearTimeout(tm, handle) == {t \in tm : t.id # handle}

\* Mutant of ScheduleLookup: the pending timer is not cleared first.
ScheduleLookup_NoClear(tm, handle, checked, value, id) ==
    IF ~checked
    THEN [timers |-> tm, lookupTimer |-> handle, started |-> FALSE]
    ELSE [timers |-> tm \cup {[id |-> id, ms |-> TimeoutMs(DelayMs(value)), elapsed |-> 0,
                                stale |-> FALSE, last |-> TRUE]},
          lookupTimer |-> id,
          started |-> TRUE]

\* scheduleLookup(): the live timers and lookupTimer after it.
ScheduleLookup(tm, handle, checked, value, id) ==
    IF ~checked
    THEN [timers |-> tm, lookupTimer |-> handle, started |-> FALSE]
    ELSE LET ms == TimeoutMs(DelayMs(value))
             cleared == IF handle # 0 THEN ClearTimeout(tm, handle) ELSE tm
         IN  [timers |-> cleared \cup {[id |-> id, ms |-> ms, elapsed |-> 0, stale |-> FALSE, last |-> TRUE]},
              lookupTimer |-> id,
              started |-> TRUE]

\* The pending timers an explicit lookup request leaves behind.
MarkStale(tm) == {[t EXCEPT !.stale = TRUE] : t \in tm}

IsExplicit(op) == op \in {"btnLookup", "enter"}

\* Mutant of DoLookup: the UI is cleared before the code is tested.
DoLookup_ClearsFirst(op, tid, tm) ==
    LET c == Trim(code)
    IN  /\ lastEvent' = Event(op, tid)
        /\ IF c = <<>>
           THEN /\ timers' = tm
                /\ SetUI(ClearUI(UI))
                /\ inflight' = Superseded(inflight)
           ELSE /\ Len(inflight) < MaxInflight
                /\ SetUI([ClearUI(UI) EXCEPT !.status = ShowStatus("Looking up...", FALSE)])
                /\ inflight' = Append(Superseded(inflight), Request("lookup", c, NoBook))
                /\ timers' = IF IsExplicit(op) THEN MarkStale(tm) ELSE tm

\* doLookup() up to its await, run by handler op with the timers tm it left.
DoLookup(op, tid, tm) ==
    LET c == Trim(code)
    IN  /\ lastEvent' = Event(op, tid)
        /\ IF c = <<>>
           THEN /\ timers' = tm
                /\ UNCHANGED <<lastLookup, btnSaveDisabled, status, previewShown, inflight>>
           ELSE /\ Len(inflight) < MaxInflight
                /\ SetUI([ClearUI(UI) EXCEPT !.status = ShowStatus("Looking up...", FALSE)])
                /\ inflight' = Append(Superseded(inflight), Request("lookup", c, NoBook))
                /\ timers' = IF IsExplicit(op) THEN MarkStale(tm) ELSE tm

\* ------------------------------------------------------------- handlers
\* btnLookup click: doLookup.
LookupClick ==
    /\ DoLookup("btnLookup", 0, timers)
    /\ UNCHANGED <<code, scannerChecked, delayValue, delayDisabled, cookies,
                   lookupTimer, inputScanner, report, markupDelay,
                   loadPending, userPrefs>>

\* code keydown with Enter: cancel the pending timer, then doLookup.
EnterKey ==
    /\ lookupTimer' = 0
    /\ DoLookup("enter", 0,
                IF lookupTimer # 0 THEN ClearTimeout(timers, lookupTimer) ELSE timers)
    /\ UNCHANGED <<code, scannerChecked, delayValue, delayDisabled, cookies,
                   inputScanner, report, markupDelay,
                   loadPending, userPrefs>>

\* Mutant of TimerFire: the callback does not reset lookupTimer.
TimerFire_KeepsHandle(t) ==
    /\ t \in timers
    /\ t.elapsed >= t.ms
    /\ DoLookup("timer", t.id, timers \ {t})
    /\ UNCHANGED <<code, scannerChecked, delayValue, delayDisabled, cookies,
                   lookupTimer, inputScanner, report, markupDelay,
                   loadPending, userPrefs>>

\* The debounce timer's callback: lookupTimer = null; doLookup().
TimerFire(t) ==
    /\ t \in timers
    /\ t.elapsed >= t.ms
    /\ lookupTimer' = 0
    /\ DoLookup("timer", t.id, timers \ {t})
    /\ UNCHANGED <<code, scannerChecked, delayValue, delayDisabled, cookies,
                   inputScanner, report, markupDelay,
                   loadPending, userPrefs>>

\* code input: the field's value changes to c, then scheduleLookup().
Input(c) ==
    LET sch == ScheduleLookup(timers, lookupTimer, scannerChecked, delayValue, FreshHandle)
    IN  /\ c # code
        /\ code' = c
        /\ timers' = {[t EXCEPT !.last = (t.id = sch.lookupTimer /\ sch.started)] : t \in sch.timers}
        /\ lookupTimer' = sch.lookupTimer
        /\ inputScanner' = scannerChecked
        /\ lastEvent' = Event("input", 0)
        /\ UNCHANGED <<scannerChecked, delayValue, delayDisabled, cookies, lastLookup,
                       btnSaveDisabled, status, previewShown, inflight, report, markupDelay,
                   loadPending, userPrefs>>

\* Time passes: by Quantum, or up to the expiry of a timer, never past one.
Tick ==
    /\ timers # {}
    /\ \E d \in {Quantum} \cup {t.ms - t.elapsed : t \in timers} :
          /\ d > 0
          /\ \A t \in timers : t.elapsed + d <= t.ms
          /\ timers' = {[t EXCEPT !.elapsed = @ + d] : t \in timers}
    /\ UNCHANGED <<code, scannerChecked, delayValue, delayDisabled, cookies, lastLookup,
                   lookupTimer, btnSaveDisabled, status, previewShown, inflight,
                   inputScanner, lastEvent, report, markupDelay,
                   loadPending, userPrefs>>

\* Mutant of LookupContinuation: the catch clause shows nothing.
LookupContinuation_SilentFail(ui, r, outcome) ==
    CASE outcome = "fail" -> ui
      [] outcome = "null" -> [ui EXCEPT !.lastLookup = NullLookup]
      [] OTHER -> RenderLookup(ui, LookupResult(r, outcome, CurrentBook))

\* doLookup() after its await: renderLookup(result), or the catch clause when
\* the request client threw.  On a null result renderLookup assigns it to
\* lastLookup and throws at `result.error`, and the catch clause shows the
\* TypeError's message.
LookupContinuation(ui, r, outcome) ==
    CASE outcome = "fail" -> [ui EXCEPT !.status = ShowStatus("HTTP 500", TRUE)]
      [] outcome = "null" -> [ui EXCEPT !.lastLookup = NullLookup,
                                        !.status = ShowStatus("TypeError", TRUE)]
      [] OTHER -> RenderLookup(ui, LookupResult(r, outcome, CurrentBook))

LookupResponse(i, outcome) ==
    /\ i \in 1..Len(inflight)
    /\ inflight[i].ep = "lookup"
    /\ inflight' = IF outcome = "fail"
                    THEN RemoveAt(Overtaken(inflight, i), i)
                    ELSE Superseded(RemoveAt(Overtaken(inflight, i), i))
    /\ SetUI(LookupContinuation(UI, inflight[i], outcome))
    /\ lastEvent' = Event("lookupResponse", IF AnsweredLate(inflight, i) THEN 1 ELSE 0)
    /\ UNCHANGED <<code, scannerChecked, delayValue, delayDisabled, cookies,
                   lookupTimer, timers, inputScanner, report, markupDelay,
                   loadPending, userPrefs>>

\* How apiPost ends for a save request: it returns the parsed body (the saved
\* record) or null for an empty body, or it throws.
SaveOutcomes == {"saved", "null", "fail"}

\* Mutant of SaveContinuation: a successful save leaves the button as it was.
SaveContinuation_KeepsEnabled(ui, outcome) ==
    CASE outcome = "saved" -> [ui EXCEPT !.status = ShowStatus("Saved", FALSE)]
      [] outcome = "null"  -> [ui EXCEPT !.status = ShowStatus("TypeError", TRUE)]
      [] outcome = "fail"  -> [ui EXCEPT !.status = ShowStatus("HTTP 500", TRUE)]

\* Mutant of SaveContinuation: a failed save disables the button as well.
SaveContinuation_FailDisables(ui, outcome) ==
    CASE outcome = "saved" -> [ui EXCEPT !.status = ShowStatus("Saved", FALSE),
                                         !.btnSaveDisabled = TRUE]
      [] outcome = "null"  -> [ui EXCEPT !.status = ShowStatus("TypeError", TRUE)]
      [] outcome = "fail"  -> [ui EXCEPT !.status = ShowStatus("HTTP 500", TRUE),
                                         !.btnSaveDisabled = TRUE]

\* doSave() after its await: the success path, or the catch clause.  On a null
\* result `result.saved` throws before the button is disabled, and the catch
\* clause shows the TypeError's message.
SaveContinuation(ui, outcome) ==
    CASE outcome = "saved" -> [ui EXCEPT !.status = ShowStatus("Saved", FALSE),
                                         !.btnSaveDisabled = TRUE]
      [] outcome = "null"  -> [ui EXCEPT !.status = ShowStatus("TypeError", TRUE)]
      [] outcome = "fail"  -> [ui EXCEPT !.status = ShowStatus("HTTP 500", TRUE)]

SaveResponse(i, outcome) ==
    /\ i \in 1..Len(inflight)
    /\ inflight[i].ep = "save"
    /\ inflight' = RemoveAt(inflight, i)
    /\ SetUI(SaveContinuation(UI, outcome))
    /\ lastEvent' = Event("saveResponse", 0)
    /\ UNCHANGED <<code, scannerChecked, delayValue, delayDisabled, cookies,
                   lookupTimer, timers, inputScanner, report, markupDelay,
                   loadPending, userPrefs>>

\* doSave() up to its await: does it post the current book?
DoSaveSends(ll) == ll.book # NoBook

\* btnSave click handler: doSave(), then the code field is emptied.  The
\* handler guards itself with lastLookup's book, so it is taken to run whenever
\* a click is dispatched, whatever the button's disabled flag.
SaveClick ==
    /\ IF DoSaveSends(lastLookup)
       THEN /\ Len(inflight) < MaxInflight
            /\ status' = ShowStatus("Saving...", FALSE)
            /\ inflight' = Append(inflight, Request("save", <<>>, lastLookup.book))
       ELSE UNCHANGED <<status, inflight>>
    /\ code' = <<>>
    /\ lastEvent' = Event("btnSave", 0)
    /\ UNCHANGED <<scannerChecked, delayValue, delayDisabled, cookies, lastLookup,
                   lookupTimer, timers, btnSaveDisabled, previewShown,
                   inputScanner, report, markupDelay,
                   loadPending, userPrefs>>

\* btnClear click: clearUI(), empty the code field, cancel the pending timer.
ClearClick ==
    /\ SetUI(ClearUI(UI))
    /\ code' = <<>>
    /\ timers' = IF lookupTimer # 0 THEN ClearTimeout(timers, lookupTimer) ELSE timers
    /\ lookupTimer' = 0
    /\ lastEvent' = Event("btnClear", lookupTimer)
    /\ inflight' = Superseded(inflight)
    /\ UNCHANGED <<scannerChecked, delayValue, delayDisabled, cookies,
                   inputScanner, report, markupDelay,
                   loadPending, userPrefs>>

\* How apiPost ends for a refresh request: it returns the parsed body (a
\* result that lists updated items, one that lists none) or null for an empty
\* body, or it throws.
RefreshOutcomes == {"items", "noitems", "null", "fail"}

\* renderRefreshReport(result): without items (a null result has none) the
\* report is hidden and its list left as it is; with items the report is shown
\* and the list rewritten.
RenderRefreshReport(rp, outcome) ==
    IF outcome \in {"noitems", "null"}
    THEN [rp EXCEPT !.shown = FALSE]
    ELSE [shown |-> TRUE, listed |-> TRUE]

\* Mutant of RefreshSends: the refresh runs whatever the prompt's answer.
RefreshSends_NoConfirm(confirmed) == TRUE

\* refreshAllBooks() goes on past its first line when confirm(...) is true.
RefreshSends(confirmed) == confirmed

\* btnRefreshAll click: refreshAllBooks() up to its await; confirmed is the
\* user's answer to the prompt.  The body's flags (dry_run from the dry-run box,
\* only_missing false) go with the request and leave no trace on the page.
RefreshClick(confirmed) ==
    /\ IF RefreshSends(confirmed)
       THEN /\ Len(inflight) < MaxInflight
            /\ status' = ShowStatus("Refreshing all books...", FALSE)
            /\ inflight' = Append(inflight, Request("refresh", <<>>, NoBook))
       ELSE UNCHANGED <<status, inflight>>
    /\ lastEvent' = Event("btnRefreshAll", IF confirmed THEN 1 ELSE 0)
    /\ UNCHANGED <<code, scannerChecked, delayValue, delayDisabled, cookies, lastLookup,
                   lookupTimer, timers, btnSaveDisabled, previewShown,
                   inputScanner, report, markupDelay,
                   loadPending, userPrefs>>

\* refreshAllBooks() after its await: the report and the counts, or the catch
\* clause.  On a null result the report is rendered (hidden), then
\* `result.counts` throws and the catch clause shows the TypeError's message.
RefreshResponse(i, outcome) ==
    /\ i \in 1..Len(inflight)
    /\ inflight[i].ep = "refresh"
    /\ inflight' = RemoveAt(inflight, i)
    /\ CASE outcome = "fail" ->
               /\ status' = ShowStatus("HTTP 500", TRUE)
               /\ UNCHANGED report
         [] outcome = "null" ->
               /\ report' = RenderRefreshReport(report, outcome)
               /\ status' = ShowStatus("TypeError", TRUE)
         [] OTHER ->
               /\ report' = RenderRefreshReport(report, outcome)
               /\ status' = ShowStatus("Done", FALSE)
    /\ lastEvent' = Event("refreshResponse", 0)
    /\ UNCHANGED <<code, scannerChecked, delayValue, delayDisabled, cookies, lastLookup,
                   lookupTimer, timers, btnSaveDisabled, previewShown,
                   inputScanner, markupDelay,
                   loadPending, userPrefs>>

\* scannerMode change: the box is toggled, the cookie written, updateScannerUI().
ScannerModeChange ==
    /\ scannerChecked' = ~scannerChecked
    /\ cookies' = SetCookie(cookies, COOKIE_SCANNER_MODE,
                            IF scannerChecked' THEN <<"1">> ELSE <<"0">>)
    /\ delayDisabled' = ~scannerChecked'
    /\ userPrefs' = [userPrefs EXCEPT !.checked = scannerChecked']
    /\ lastEvent' = Event("scannerMode", 0)
    /\ UNCHANGED <<code, delayValue, lastLookup, lookupTimer, timers, btnSaveDisabled,
                   status, previewShown, inflight, inputScanner, report, markupDelay,
                   loadPending>>

\* scannerDelayInput change (a disabled input cannot be edited): the cookie is
\* written.
DelayChange(v) ==
    /\ ~delayDisabled
    /\ v # delayValue
    /\ delayValue' = v
    /\ cookies' = SetCookie(cookies, COOKIE_SCANNER_DELAY, v)
    /\ userPrefs' = [userPrefs EXCEPT !.delay = v]
    /\ lastEvent' = Event("scannerDelay", 0)
    /\ UNCHANGED <<code, scannerChecked, delayDisabled, lastLookup, lookupTimer, timers,
                   btnSaveDisabled, status, previewShown, inflight,
                   inputScanner, report, markupDelay, loadPending>>

Next ==
    \/ LookupClick
    \/ EnterKey
    \/ \E t \in timers : TimerFire(t)
    \/ \E c \in CodeValues : Input(c)
    \/ Tick
    \/ \E i \in 1..Len(inflight), o \in LookupOutcomes : LookupResponse(i, o)
    \/ SaveClick
    \/ \E i \in 1..Len(inflight), o \in SaveOutcomes : SaveResponse(i, o)
    \/ ClearClick
    \/ ScannerModeChange
    \/ \E v \in DelayValues : DelayChange(v)

Spec == Init /\ [][Next]_vars

\* ------------------------------------------------------- preferences
\* The load handler's `if (mode !== null ...) checked = mode === "1"`: the box
\* after it, current being the box's state when the handler runs.
RestoredChecked(mode, current) ==
    IF mode.found THEN mode.value = <<"1">> ELSE current

\* Mutant of RestoredDelay: the delay cookie is not read back.
RestoredDelay_Ignored(delay, current) == current

\* The load handler's `if (delay ...) value = delay`: the delay input after it.
\* A missing or empty cookie leaves the input the value it has.
RestoredDelay(delay, current) ==
    IF delay.found /\ delay.value # <<>> THEN delay.value ELSE current

\* The load handler from its first getCookie on: the box, the delay input's
\* value and its disabled flag after it.  A getCookie that throws ends the
\* handler there: the first before the box is written, the second before
\* updateScannerUI().
RestoredPrefs(jar, checked, value, disabled) ==
    LET mode == GetCookie(jar, COOKIE_SCANNER_MODE)
        delay == GetCookie(jar, COOKIE_SCANNER_DELAY)
        box == RestoredChecked(mode, checked)
    IN  IF mode.threw
        THEN [checked |-> checked, value |-> value, disabled |-> disabled]
        ELSE IF delay.threw
             THEN [checked |-> box, value |-> value, disabled |-> disabled]
             ELSE [checked |-> box, value |-> RestoredDelay(delay, value),
                   disabled |-> ~box]

\* What the page as served decides of the elements the load handler writes:
\* the box, the delay input's disabled flag, the save button's, and whether
\* the status and the preview are displayed.  With the box on or off, a markup
\* either prepares these elements (the delay input disabled when the box is
\* off, save disabled, status and preview not displayed) or leaves them all to
\* the load handler.
Markups ==
    {m \in [checked : BOOLEAN, delayDisabled : BOOLEAN, saveDisabled : BOOLEAN,
            statusShown : BOOLEAN, previewShown : BOOLEAN] :
        /\ m.delayDisabled = (m.saveDisabled /\ ~m.checked)
        /\ m.statusShown = ~m.saveDisabled
        /\ m.previewShown = ~m.saveDisabled}

\* The page is loaded anew: scripts, timers and awaited requests of the page
\* left are gone and the module is evaluated on the document as served.
\* lastLookup and lookupTimer are null, the handlers are registered, the box,
\* the delay input and the save button are as the markup has them, the code
\* field holds what the browser puts there (restored), and the load event is
\* still to come.
Navigate(served, restored) ==
    /\ code' = restored
    /\ scannerChecked' = served.checked
    /\ delayValue' = markupDelay
    /\ delayDisabled' = served.delayDisabled
    /\ lastLookup' = NullLookup
    /\ lookupTimer' = 0
    /\ timers' = {}
    /\ btnSaveDisabled' = served.saveDisabled
    /\ status' = [shown |-> served.statusShown, msg |-> "", isError |-> FALSE]
    /\ previewShown' = served.previewShown
    /\ report' = EmptyReport
    /\ inflight' = <<>>
    /\ inputScanner' = FALSE
    /\ loadPending' = TRUE
    /\ lastEvent' = Event("navigate", 0)
    /\ UNCHANGED <<cookies, markupDelay, userPrefs>>

\* The load handler: clearUI(), the two cookies read back, updateScannerUI(),
\* the code field focused.  It runs when the load event is dispatched, after
\* whatever handlers ran since the module was evaluated; the code field, the
\* timers and the requests in flight are left alone.
Load ==
    /\ loadPending
    /\ loadPending' = FALSE
    /\ SetUI(ClearUI(UI))
    /\ inflight' = Superseded(inflight)
    /\ \E r \in {RestoredPrefs(cookies, scannerChecked, delayValue, delayDisabled)} :
           /\ scannerChecked' = r.checked
           /\ delayValue' = r.value
           /\ delayDisabled' = r.disabled
    /\ lastEvent' = Event("load", 1)
    /\ UNCHANGED <<code, cookies, markupDelay, lookupTimer, timers, report,
                   inputScanner, userPrefs>>

\* Texts the user gives the delay input (empty, and digits after a space,
\* which the cookie carries as an escape), and values the markup may give it.
PrefDelays == {<<>>, <<" ", "2", "0">>}

MarkupDelays == {<<>>, <<"2", "5", "0">>}

\* The module has just been evaluated on the page as served (box unchecked,
\* nothing disabled, status and preview displayed) for a visitor whose earlier
\* visit left scanner mode off and the delay as the markup has it; the load
\* event is still to come.
InitPrefs ==
    /\ markupDelay \in MarkupDelays
    /\ code = <<>>
    /\ scannerChecked = FALSE
    /\ delayValue = markupDelay
    /\ delayDisabled = FALSE
    /\ userPrefs = [checked |-> FALSE, delay |-> markupDelay]
    /\ cookies = SetCookie(SetCookie([n \in {COOKIE_SCANNER_MODE, COOKIE_SCANNER_DELAY} |-> NoCookie],
                                      COOKIE_SCANNER_MODE, <<"0">>),
                            COOKIE_SCANNER_DELAY, userPrefs.delay)
    /\ lastLookup = NullLookup
    /\ lookupTimer = 0
    /\ timers = {}
    /\ btnSaveDisabled = FALSE
    /\ status = [shown |-> TRUE, msg |-> "", isError |-> FALSE]
    /\ previewShown = TRUE
    /\ report = EmptyReport
    /\ inflight = <<>>
    /\ inputScanner = FALSE
    /\ loadPending = TRUE
    /\ lastEvent = Event("navigate", 0)

\* The code typed between page loads.
PrefCodes == {<<" ", "7", " ">>}

\* The two preference handlers, the page loaded anew and its load handler,
\* with a lookup, the save of its book and a refresh sent and answered in
\* between.
NextPrefs ==
    \/ ScannerModeChange
    \/ \E v \in PrefDelays : DelayChange(v)
    \/ \E served \in Markups, restored \in {<<>>} \cup PrefCodes : Navigate(served, restored)
    \/ Load
    \/ \E c \in PrefCodes : Input(c)
    \/ LookupClick
    \/ \E i \in 1..Len(inflight) : LookupResponse(i, "book")
    \/ SaveClick
    \/ \E i \in 1..Len(inflight) : SaveResponse(i, "saved")
    \/ RefreshClick(TRUE)
    \/ \E i \in 1..Len(inflight) : RefreshResponse(i, "items")

SpecPrefs == InitPrefs /\ [][NextPrefs]_vars

\* ------------------------------------------------ the three requests
\* Lookup, save and refresh together: typing, the three lookup triggers, the
\* Save, Clear and Refresh buttons, and the continuation of every request.
NextRequests ==
    \/ \E c \in CodeValues : Input(c)
    \/ LookupClick
    \/ EnterKey
    \/ Tick
    \/ \E t \in timers : TimerFire(t)
    \/ \E i \in 1..Len(inflight), o \in LookupOutcomes : LookupResponse(i, o)
    \/ SaveClick
    \/ \E i \in 1..Len(inflight), o \in SaveOutcomes : SaveResponse(i, o)
    \/ ClearClick
    \/ \E confirmed \in BOOLEAN : RefreshClick(confirmed)
    \/ \E i \in 1..Len(inflight), o \in RefreshOutcomes : RefreshResponse(i, o)

SpecRequests == Init /\ [][NextRequests]_vars

\* ------------------------------------------ lookups of different codes
\* Texts of the code field that are two different codes.
OrderCodes == {<<" ", "7", " ">>, <<"8">>}

\* The lookup workflow with two codes: typing, the three triggers, the
\* responses, Clear.
NextOrder ==
    \/ \E c \in OrderCodes : Input(c)
    \/ LookupClick
    \/ EnterKey
    \/ Tick
    \/ \E t \in timers : TimerFire(t)
    \/ \E i \in 1..Len(inflight), o \in LookupOutcomes : LookupResponse(i, o)
    \/ ClearClick

SpecOrder == Init /\ [][NextOrder]_vars

\* ------------------------------------------- the delay of scheduleLookup
\* Texts of the delay input: every text up to MaxDelayDigits long of three
\* digits, the dot, the exponent mark and a letter, the empty text included:
\* counts of milliseconds, numbers with a fraction or an exponent, and texts
\* that write no number.
DelayDigits == {"0", "2", "5", ".", "e", "a"}

DelayInputs == UNION {[1..n -> DelayDigits] : n \in 0..MaxDelayDigits}

\* The page loaded with scanner mode on and any of these texts in the delay
\* input.
InitDelay ==
    /\ markupDelay = <<>>
    /\ code = <<>>
    /\ scannerChecked = TRUE
    /\ delayValue \in DelayInputs
    /\ delayDisabled = FALSE
    /\ cookies = SetCookie(SetCookie([n \in {COOKIE_SCANNER_MODE, COOKIE_SCANNER_DELAY} |-> NoCookie],
                                      COOKIE_SCANNER_MODE, <<"1">>),
                            COOKIE_SCANNER_DELAY, delayValue)
    /\ lastLookup = NullLookup
    /\ lookupTimer = 0
    /\ timers = {}
    /\ btnSaveDisabled = TRUE
    /\ status = HiddenStatus
    /\ previewShown = FALSE
    /\ report = EmptyReport
    /\ inflight = <<>>
    /\ inputScanner = FALSE
    /\ lastEvent = Event("load", 0)
    /\ loadPending = FALSE
    /\ userPrefs = [checked |-> scannerChecked, delay |-> delayValue]

\* scheduleLookup() is run by the input handler; time passes and the timer's
\* callback runs.
NextDelay ==
    \/ \E c \in CodeValues : Input(c)
    \/ Tick
    \/ \E t \in timers : TimerFire(t)

SpecDelay == InitDelay /\ [][NextDelay]_vars

\* ------------------------------------------------------------ properties
\* A character that is neither white space nor a line terminator.
Inked(c) == c \notin WhiteSpace \cup LineTerminator

HasNonSpace(s) == \E i \in 1..Len(s) : Inked(s[i])

\* p is raw without the white space and the line terminators at its two ends.
IsTrimOf(p, raw) ==
    /\ p # <<>>
    /\ Inked(p[1])
    /\ Inked(p[Len(p)])
    /\ \E i \in 0..(Len(raw) - Len(p)) :
          /\ SubSeq(raw, i + 1, i + Len(p)) = p
          /\ \A k \in (1..i) \cup ((i + Len(p) + 1)..Len(raw)) : ~Inked(raw[k])

\* The requests of q as sent: endpoint and code (which result a saved book
\* came with is not part of the request).
Wire(q) == [i \in 1..Len(q) |-> [ep |-> q[i].ep, code |-> q[i].code]]

NumLookups(q) == Cardinality({i \in 1..Len(q) : q[i].ep = "lookup"})

\* This step sent a request.
Sent == Len(inflight') = Len(inflight) + 1

\* This step is a lookup trigger: the Lookup button, Enter, or a timer firing.
IsTrigger == LookupClick \/ EnterKey \/ \E t \in timers : TimerFire(t)

\* C1: a timer that was pending when an explicit lookup (Lookup button or Enter)
\* sent its request never fires a lookup request of its own afterwards.
C1_NoAutoLookupAfterExplicit ==
    [][\A t \in timers : (TimerFire(t) /\ Sent) => ~t.stale]_vars

\* C2: when a lookup response has been handled, save is enabled if the response
\* carried a book and no error, and disabled if it carried an error or no book
\* or the request failed.
C2_SaveFollowsLookupOutcome ==
    [][\A i \in 1..Len(inflight), o \in LookupOutcomes :
          LookupResponse(i, o) =>
              IF o = "book" THEN ~btnSaveDisabled' ELSE btnSaveDisabled']_vars

\* C3: whenever save is enabled, lastLookup is non-null and holds a book.
C3_SaveEnabledOnlyWithBook ==
    ~btnSaveDisabled => (lastLookup # NullLookup /\ lastLookup.book # NoBook)

\* C4: handling a successful save response leaves save disabled, and save goes
\* from disabled to enabled only when a lookup response with a book and no
\* error is handled.
C4_SavedStaysDisabled ==
    [][/\ \A i \in 1..Len(inflight) : SaveResponse(i, "saved") => btnSaveDisabled'
       /\ (btnSaveDisabled /\ ~btnSaveDisabled') =>
              \E i \in 1..Len(inflight) : LookupResponse(i, "book")]_vars

\* A successful save response has just been handled.
C4_Witness ==
    /\ lastEvent.op = "saveResponse"
    /\ status.msg = "Saved"
    /\ btnSaveDisabled
    /\ lastLookup.book # NoBook

\* C5: two save requests for the book of one lookup result are never in flight
\* at the same time (stated for the result lastLookup holds).
C5_NoDuplicateSave ==
    \A i, j \in 1..Len(inflight) :
        (i < j /\ inflight[i].ep = "save" /\ inflight[j].ep = "save")
            => ~(inflight[i].book = CurrentBook /\ inflight[j].book = CurrentBook)

\* C6: at most one debounce timer is live, lookupTimer holds its handle, and
\* lookupTimer is null when none is live.
C6_OneLiveTimer ==
    /\ Cardinality(timers) <= 1
    /\ \A t \in timers : t.id = lookupTimer
    /\ (timers = {}) => lookupTimer = 0

\* An input event has just replaced a pending timer by a new one.
C6_Witness ==
    /\ lastEvent.op = "input"
    /\ lookupTimer = 2
    /\ \E t \in timers : t.id = 2 /\ t.elapsed = 0

\* C7: when the last input event found scanner mode on, the timer that fires
\* is the one that input started, it fires exactly its delay after that
\* input, it sends exactly one lookup request if the code is not blank, and
\* it leaves no timer pending.
C7_DebounceLastInputWins ==
    [][\A t \in timers :
          (TimerFire(t) /\ inputScanner) =>
              /\ t.last
              /\ t.elapsed = t.ms
              /\ timers' = {}
              /\ HasNonSpace(code) => (Sent /\ NumLookups(inflight') = NumLookups(inflight) + 1)]_vars

\* The timer started by the second input of a burst has fired and sent the
\* lookup request.
C7_Witness ==
    /\ lastEvent = Event("timer", 2)
    /\ inputScanner
    /\ timers = {}
    /\ HasNonSpace(code)
    /\ status.msg = "Looking up..."
    /\ inflight # <<>>
    /\ inflight[Len(inflight)].ep = "lookup"

\* C8: a lookup trigger that finds a non-blank code appends exactly one lookup
\* request, carrying the trimmed code; a trigger that finds a blank code sends
\* nothing; and no other step sends a lookup request.
C8_OneRequestPerTrigger ==
    [][/\ (IsTrigger /\ HasNonSpace(code)) =>
              /\ Sent
              /\ SubSeq(Wire(inflight'), 1, Len(inflight)) = Wire(inflight)
              /\ inflight'[Len(inflight')].ep = "lookup"
              /\ IsTrimOf(inflight'[Len(inflight')].code, code)
       /\ (IsTrigger /\ ~HasNonSpace(code)) => inflight' = inflight
       /\ (NumLookups(inflight') > NumLookups(inflight)) => IsTrigger]_vars

\* A trigger has just sent the code without the white space typed around it.
C8_Witness ==
    /\ lastEvent.op \in {"btnLookup", "enter", "timer"}
    /\ inflight # <<>>
    /\ inflight[Len(inflight)].ep = "lookup"
    /\ Len(inflight[Len(inflight)].code) < Len(code)
    /\ status.msg = "Looking up..."

\* C9: an input event starts a timer only with scanner mode checked, and a
\* timer's callback sends a lookup request only with scanner mode checked.
C9_AutoLookupOnlyInScannerMode ==
    [][/\ ((\E c \in CodeValues : Input(c)) /\ timers' # timers /\ lookupTimer' # lookupTimer)
              => scannerChecked
       /\ \A t \in timers : (TimerFire(t) /\ Sent) => scannerChecked]_vars

\* C10 as stated: a Save click with no current book changes nothing, the code
\* input included.
C10_SaveWithoutBookChangesNothing ==
    [][(SaveClick /\ lastLookup.book = NoBook) =>
          UNCHANGED <<inflight, status, lastLookup, btnSaveDisabled, lookupTimer,
                      timers, code>>]_vars

\* C11: handling a failed save response shows the error in error styling and
\* changes nothing else: lastLookup, the save button and the preview are as
\* they were, and no request is sent (the failed one only leaves the requests
\* in flight).
C11_SaveFailureOnlyChangesStatus ==
    [][\A i \in 1..Len(inflight) :
          SaveResponse(i, "fail") =>
              /\ status' = ShowStatus("HTTP 500", TRUE)
              /\ UNCHANGED <<lastLookup, btnSaveDisabled, previewShown, code,
                             lookupTimer, timers>>
              /\ Wire(inflight') = Wire(RemoveAt(inflight, i))]_vars

\* A failed save response has just been handled and save is still enabled on
\* the book that was being saved.
C11_Witness ==
    /\ lastEvent.op = "saveResponse"
    /\ status = ShowStatus("HTTP 500", TRUE)
    /\ ~btnSaveDisabled
    /\ lastLookup.book = CurrentBook

\* C16: a lookup trigger that finds a blank code (empty or white space only)
\* sends nothing and leaves lastLookup, the save button, the status, the
\* preview and the code field as they were; a trigger that finds a non-blank
\* code leaves lastLookup null and save disabled in the step that sends the
\* request.
C16_BlankTriggerIsNoOp ==
    [][/\ (IsTrigger /\ ~HasNonSpace(code)) =>
              UNCHANGED <<inflight, lastLookup, btnSaveDisabled, status, previewShown, code>>
       /\ (IsTrigger /\ HasNonSpace(code)) =>
              /\ Sent
              /\ lastLookup' = NullLookup
              /\ btnSaveDisabled'
              /\ ~previewShown']_vars

\* A trigger has just run on a blank code while a rendered book was on the
\* page with save enabled.
C16_Witness ==
    /\ lastEvent.op \in {"btnLookup", "enter", "timer"}
    /\ ~HasNonSpace(code)
    /\ ~btnSaveDisabled
    /\ lastLookup.book = CurrentBook
    /\ status.msg = "OK"
    /\ previewShown

\* C17: the Clear click leaves no timer pending, lookupTimer and lastLookup
\* null, save disabled and the code field empty; and once no timer is pending
\* only an input event starts one.
C17_ClearLeavesNothingPending ==
    [][/\ ClearClick =>
              /\ timers' = {}
              /\ lookupTimer' = 0
              /\ lastLookup' = NullLookup
              /\ btnSaveDisabled'
              /\ code' = <<>>
       /\ (timers = {} /\ timers' # {}) => \E c \in CodeValues : Input(c)]_vars

\* Clear has just cancelled a pending timer.
C17_Witness ==
    /\ lastEvent.op = "btnClear"
    /\ lastEvent.tid # 0
    /\ timers = {}
    /\ lookupTimer = 0
    /\ code = <<>>
    /\ btnSaveDisabled

\* C13: the delay of every timer scheduleLookup starts lies in 50..2000,
\* whatever the delay input holds: 250 for an empty delay input and, for a
\* count of milliseconds, 50 for one below 50, 2000 for one above 2000, and
\* the count itself otherwise.
C13_DelayClamped ==
    \A t \in timers :
        /\ t.ms >= 50 /\ t.ms <= 2000
        /\ (delayValue = <<>>) => t.ms = 250
        /\ (delayValue # <<>> /\ AllIn(delayValue, DecimalDigits)) =>
              LET n == DigitsValue(delayValue)
              IN  /\ (n < 50) => t.ms = 50
                  /\ (n > 2000) => t.ms = 2000
                  /\ (n >= 50 /\ n <= 2000) => t.ms = n

\* C12: the response of any lookup request in flight, whatever its place among
\* them, decides the page when it arrives.  With a result, lastLookup becomes
\* that result (its value, its book, its error) and status, preview
\* and save button are those renderLookup gives it; without one (a failure of
\* the request client, an empty body) the error is shown and nothing of an
\* earlier response stays: lastLookup is null, the preview hidden, save
\* disabled.  And a lookup request leaves the requests in flight only by its
\* own response.
C12_RenderedInCompletionOrder ==
    [][/\ \A i \in 1..Len(inflight), o \in LookupOutcomes :
              LookupResponse(i, o) =>
                  IF o \notin {"null", "fail"}
                  THEN /\ lastLookup' = LookupResult(inflight[i], o, CurrentBook)
                       /\ lastLookup'.error = (o \in {"error", "errorbook", "erroronly"})
                       /\ (lastLookup'.book # NoBook) = (o \in {"book", "errorbook"})
                       /\ status'.shown
                       /\ status'.isError = lastLookup'.error
                       /\ previewShown' = (o = "book")
                       /\ btnSaveDisabled' = (o # "book")
                  ELSE /\ status'.shown
                       /\ status'.isError
                       /\ lastLookup' = NullLookup
                       /\ ~previewShown'
                       /\ btnSaveDisabled'
       /\ (NumLookups(inflight') < NumLookups(inflight)) =>
              /\ NumLookups(inflight') = NumLookups(inflight) - 1
              /\ \E i \in 1..Len(inflight), o \in LookupOutcomes : LookupResponse(i, o)]_vars

NumRefreshes(q) == Cardinality({i \in 1..Len(q) : q[i].ep = "refresh"})

\* C14: a Refresh click whose prompt is declined sends nothing and leaves the
\* status, the report, lastLookup and the rest of the page as they were; and a
\* refresh request is sent only by a Refresh click whose prompt is confirmed.
C14_RefreshOnlyWhenConfirmed ==
    [][/\ RefreshClick(FALSE) =>
              UNCHANGED <<inflight, status, report, lastLookup, btnSaveDisabled,
                          previewShown, code, lookupTimer, timers>>
       /\ (NumRefreshes(inflight') > NumRefreshes(inflight)) => RefreshClick(TRUE)]_vars

\* A Refresh click has just been declined on a page that shows a rendered
\* book and the report of an earlier refresh.
C14_Witness ==
    /\ lastEvent = Event("btnRefreshAll", 0)
    /\ status.msg = "OK"
    /\ lastLookup.book = CurrentBook
    /\ report.shown

InProgress == {"Looking up...", "Saving...", "Refreshing all books..."}

\* C18: whenever no request is in flight, the status text is none of the
\* in-progress messages: every request's continuation has replaced it.
C18_NoStaleInProgressStatus ==
    (inflight = <<>>) => status.msg \notin InProgress

\* A lookup, a save of its book and a refresh have all been answered, the
\* refresh last, and nothing is in flight.
C18_Witness ==
    /\ lastEvent.op = "refreshResponse"
    /\ inflight = <<>>
    /\ status = ShowStatus("Done", FALSE)
    /\ lastLookup.book = CurrentBook
    /\ ~lastLookup.error
    /\ btnSaveDisabled

\* C15 as stated: the load handler leaves the scanner-mode box and the delay
\* input holding exactly what the user set last, whatever the box and whatever
\* the delay.
C15_LoadRestoresPreferences ==
    [][Load => (scannerChecked' = userPrefs.checked /\ delayValue' = userPrefs.delay)]_vars

\* C15 amended: the load handler leaves the scanner-mode box as the user set
\* it last, and the delay input holding the delay the user set last when that
\* is not empty; when the user emptied the delay, the input is left with what
\* it holds when the handler runs (the value of the page's markup).
C15_LoadRestoresNonEmptyPreferences ==
    [][Load =>
          /\ scannerChecked' = userPrefs.checked
          /\ (userPrefs.delay # <<>>) => delayValue' = userPrefs.delay
          /\ (userPrefs.delay = <<>>) => delayValue' = delayValue]_vars

\* The load handler has run on a page loaded anew after the user switched
\* scanner mode on and typed a delay other than the markup's, one the cookie
\* carries with an escape: both are back.
C15_Witness ==
    /\ lastEvent = Event("load", 1)
    /\ userPrefs = [checked |-> TRUE, delay |-> <<" ", "2", "0">>]
    /\ scannerChecked
    /\ delayValue = <<" ", "2", "0">>
    /\ delayValue # markupDelay
    /\ cookies[COOKIE_SCANNER_DELAY].value = <<"%", "2", "0", "2", "0">>
    /\ ~delayDisabled

TypeOK ==
    /\ code \in CodeValues
    /\ scannerChecked \in BOOLEAN
    /\ delayValue \in DelayValues
    /\ lookupTimer \in Nat
    /\ btnSaveDisabled \in BOOLEAN
    /\ Len(inflight) <= MaxInflight

====
